---- MODULE Spec2Model ----
(***************************************************************************)
(* ChronoAI: the notification scheduling and escalation engine.            *)
(*                                                                         *)
(* The model follows src/main.py (ChronoAI), src/scheduler.py (the         *)
(* APScheduler wrapper), src/tts_engine.py (TTSEngine) and                 *)
(* src/notification_popup.py (NotificationPopup); a second part follows    *)
(* src/src/chronoai/services/notification_service.py                       *)
(* (NotificationService), which runs its sequence on a thread of its own.  *)
(*                                                                         *)
(* Time is counted in ticks of 1.5 s, the greatest common unit of every    *)
(* duration of the code: the step delays 0, 3.0 and 3.0 s, the 1.5 s       *)
(* buffer, and whole minutes (40 ticks).  Handlers take no time but        *)
(* interleave: the UI thread runs one handler at a time, the scheduler     *)
(* hands due jobs to worker threads, speech runs on its own threads.       *)
(***************************************************************************)
EXTENDS Integers, Sequences, FiniteSets, TLC

\* ------------------------------------------------------------------ bounds
MaxSessions == 2
MaxTime == 490
MaxUtterance == 2

MaxNotifications == 2
MaxFetched == 2
MaxStarts == 3

SessionIds == 1 .. MaxSessions
NotificationIds == 1 .. MaxNotifications
SettingsChoices ==
    {[reminder_time |-> 5, snooze_duration |-> 2],
     [reminder_time |-> 10, snooze_duration |-> 5]}

\* ------------------------------------------------------- program constants
TicksPerMinute == 40
SequenceDelay == <<0, 2, 2>>
TimeoutBuffer == 1
SyncIntervalMinutes == 10
ServiceReminderMinutes == 15

Threads == {"ui", "worker"}

VARIABLES
    now,        \* datetime.now(), in ticks
    started,    \* ChronoAI.run() has been called
    catalog,    \* the event records the providers may return
    settings,   \* self.settings: [reminder_time, snooze_duration]
    jobs,       \* the scheduler's job store: a set of job records
    sessions,   \* the live calls of trigger_notification_flow, by session id
    popup,      \* self.notification_popup: [s, visible]
    ui,         \* the handler the UI thread is running
    sync,       \* the sync pass each thread is running
    running,    \* jobs handed to worker threads and not yet executed
    tts,        \* TTSEngine: [is_speaking, speech_thread, threads]
    displayed,  \* the events last given to MainWindow.update_events
    obs,        \* per session: what was observed of it (history)
    ns,         \* NotificationService: its notifications, by notification id
    svc,        \* SchedulerService: its scheduler's jobs and the passes running
    call        \* one call of sync_calendars followed step by step

vars == <<now, started, catalog, settings, jobs, sessions, popup, ui, sync,
          running, tts, displayed, obs, ns, svc, call>>

\* the variables of ChronoAI (src/main.py)
chronoVars == <<now, started, catalog, settings, jobs, sessions, popup, ui, sync,
                running, tts, displayed, obs>>

\* ----------------------------------------------------------------- job ids
TopId(e) == <<"event_notification", e, 0>>
\* a step id that leaves the event out
shared_step_id(e, i) == <<"notification_step", "-", i>>
StepId(e, i) == <<"notification_step", e, i>>
TimeoutId(e) == <<"notification_timeout", e, 0>>
SyncId == <<"recurring_sync", "-", 0>>

StepIndexes == 0 .. (Len(SequenceDelay) - 1)

Job(id, run_at, s, start, origin) ==
    [id |-> id, run_at |-> run_at, s |-> s, start |-> start, origin |-> origin]

\* ---------------------------------------------------------- Scheduler
HasJob(J, id) == \E j \in J : j.id = id

\* Scheduler.add_job hands its arguments to BackgroundScheduler.add_job: with
\* replace_existing a job of the same id is replaced, without it the call
\* raises ConflictingIdError and the store is left as it was.
add_job(J, job, replace_existing) ==
    IF HasJob(J, job.id) /\ ~replace_existing
    THEN [jobs |-> J, ok |-> FALSE]
    ELSE [jobs |-> {j \in J : j.id # job.id} \cup {job}, ok |-> TRUE]

\* a removal that takes every job of the same event with it
remove_jobs_of_event(J, id) == {j \in J : j.id[2] # id[2]}

\* Scheduler.remove_job: JobLookupError is caught and logged.
remove_job(J, id) == {j \in J : j.id # id}

get_jobs(J) == J

startswith_event_notification(id) == id[1] = "event_notification"

\* ---------------------------------------------------------- TTSEngine
Utt(kind, s, i) == [kind |-> kind, s |-> s, i |-> i]
NoUtt == Utt("none", 0, 0)

\* TTSEngine.__init__: when pyttsx3.init() fails, _initialized is False and
\* _is_speaking and _speech_thread are never assigned.
TTSEngineNew(initialized) ==
    [initialized |-> initialized, is_speaking |-> FALSE, speech_thread |-> NoUtt,
     threads |-> {}]

\* speak and stop read self._is_speaking first: AttributeError when the
\* attribute was never assigned.
raises_AttributeError(T) == ~T.initialized

\* TTSEngine.speak: rejected while _is_speaking, else the flag is set and a
\* speech thread is started.
speak(T, u, t) ==
    IF raises_AttributeError(T) \/ T.is_speaking
    THEN T
    ELSE [T EXCEPT !.is_speaking = TRUE, !.speech_thread = u,
                   !.threads = @ \cup {[utt |-> u, stopped |-> FALSE, started |-> t]}]

Accepted(T) == ~raises_AttributeError(T) /\ ~T.is_speaking

\* TTSEngine.stop: nothing when not speaking; else engine.stop(), the flag is
\* cleared and _speech_thread is joined for at most 1.0 s: `joined` tells
\* whether that thread ended within the join.
stop(T, joined) ==
    IF raises_AttributeError(T) \/ ~T.is_speaking
    THEN T
    ELSE LET halted == {[th EXCEPT !.stopped = TRUE] : th \in T.threads}
         IN  [T EXCEPT !.is_speaking = FALSE,
                       !.threads = IF joined
                                   THEN {th \in halted : th.utt # T.speech_thread}
                                   ELSE halted]

\* TTSEngine._speak_worker, its finally block: the thread ends and clears
\* the flag, whichever utterance the flag stands for.
speak_worker_done(T, th) ==
    [T EXCEPT !.is_speaking = FALSE, !.threads = @ \ {th}]

\* ---------------------------------------------------------- observations
NewObs == [steps |-> 0, detailReq |-> 0, detailStarted |-> 0, handlers |-> {},
           after |-> 0, toast |-> 0, lateReq |-> 0]

Resolved(o) == o.handlers # {}

\* A speak request of kind k made for session s against engine state T.
Spoke(O, s, k, T) ==
    [O EXCEPT ![s] =
        [@ EXCEPT !.steps = IF k = "step" /\ Accepted(T) THEN @ + 1 ELSE @,
                  !.detailReq = IF k = "details" THEN @ + 1 ELSE @,
                  !.detailStarted = IF k = "details" /\ Accepted(T) THEN @ + 1 ELSE @,
                  !.lateReq = IF k = "details" /\ Resolved(O[s]) THEN @ + 1 ELSE @,
                  !.after = IF "ack" \in O[s].handlers /\ Accepted(T) THEN @ + 1 ELSE @]]

Handled(O, s, h) == [O EXCEPT ![s].handlers = @ \cup {h}]

\* ---------------------------------------------------------- ChronoAI
\* start_time values that are no time: None (the provider's record has no
\* start) and a string that is not ISO 8601
NoneValue == -1
Malformed == -2

\* parser.isoparse(start_time): the exception it ends with, or "ok".  For
\* None it is TypeError; for a string it cannot read it is ValueError, which
\* is not a parser.ParserError.
isoparse(start_time) ==
    IF start_time = NoneValue THEN "TypeError"
    ELSE IF start_time = Malformed THEN "ValueError"
    ELSE "ok"

\* except (parser.ParserError, TypeError)
caught(exception) == exception = "TypeError"

\* A start_time with a UTC offset ("2023-10-27T10:00:00-07:00") parses to an
\* aware datetime, one without to a naive datetime; datetime.now() is naive.
\* Aware values are kept apart from the naive ones by AwareMark.
AwareMark == 100000
Aware(t) == AwareMark + t
tzinfo(dt) == dt >= AwareMark

\* the instant an aware or a naive (local) datetime stands for
instant(dt) == IF tzinfo(dt) THEN dt - AwareMark ELSE dt

\* dt > t for two datetimes: TypeError ("can't compare offset-naive and
\* offset-aware datetimes") when only one of them is aware
later(dt, t) ==
    IF tzinfo(dt) # tzinfo(t) THEN "TypeError"
    ELSE IF instant(dt) > instant(t) THEN "yes"
    ELSE "no"

notification_time(start_time, reminder_minutes) ==
    start_time - reminder_minutes * TicksPerMinute

snooze_time(t, snooze_minutes) == t + snooze_minutes * TicksPerMinute

RECURSIVE SumSeq(_)
SumSeq(q) == IF q = <<>> THEN 0 ELSE Head(q) + SumSeq(Tail(q))

\* a timeout that waits for the buffer only
buffer_without_delays == TimeoutBuffer

total_sequence_duration == SumSeq(SequenceDelay) + TimeoutBuffer

\* a first loop that removes every job it lists
purge_every_job(J, listed) == J \ listed

\* schedule_notifications, first loop: remove every event_notification_ job.
RECURSIVE purge(_, _)
purge(J, listed) ==
    IF listed = {}
    THEN J
    ELSE LET j == CHOOSE x \in listed : TRUE
         IN  purge(IF startswith_event_notification(j.id) THEN remove_job(J, j.id) ELSE J,
                   listed \ {j})

\* a second loop that schedules whatever the notification time
RECURSIVE schedule_past_too(_, _, _, _)
schedule_past_too(J, events, t, reminder_minutes) ==
    IF events = {}
    THEN J
    ELSE LET ev == CHOOSE x \in events : TRUE
             at == notification_time(ev.start_time, reminder_minutes)
         IN  schedule_past_too(
                 add_job(J, Job(TopId(ev.id), at, 0, ev.start_time, "sync"), TRUE).jobs,
                 events \ {ev}, t, reminder_minutes)

\* schedule_notifications, second loop: one job per event whose notification
\* time is still ahead.
RECURSIVE schedule(_, _, _, _)
schedule(J, events, t, reminder_minutes) ==
    IF events = {}
    THEN J
    ELSE LET ev == CHOOSE x \in events : TRUE
             at == notification_time(ev.start_time, reminder_minutes)
             parsed == isoparse(ev.start_time)
         IN  IF parsed # "ok" /\ ~caught(parsed)
             THEN J
             ELSE schedule(IF parsed = "ok" /\ later(at, t) = "yes"
                           THEN add_job(J, Job(TopId(ev.id), at, 0, ev.start_time, "sync"),
                                        TRUE).jobs
                           ELSE J,
                           events \ {ev}, t, reminder_minutes)

\* trigger_notification_flow, step 3: the loop over the sequence.  i counts
\* from 0; current_delay is raised after the step's job is added.
RECURSIVE schedule_steps(_, _, _, _, _, _)
schedule_steps(J, s, e, base_time, i, current_delay) ==
    IF i >= Len(SequenceDelay)
    THEN [jobs |-> J, ok |-> TRUE]
    ELSE LET r == add_job(J, Job(StepId(e, i), base_time + current_delay, s, 0, "flow"), FALSE)
         IN  IF ~r.ok
             THEN r
             ELSE schedule_steps(r.jobs, s, e, base_time, i + 1,
                                 current_delay + SequenceDelay[i + 1])

\* trigger_notification_flow, steps 3 and 4: an exception of add_job ends
\* the flow where it is raised.
schedule_sequence(J, s, e, base_time) ==
    LET r == schedule_steps(J, s, e, base_time, 0, 0)
    IN  IF ~r.ok
        THEN r
        ELSE add_job(r.jobs,
                     Job(TimeoutId(e), base_time + total_sequence_duration, s, 0, "flow"),
                     FALSE)

\* the clean-up loop of on_acknowledged and on_snoozed
RECURSIVE remove_steps(_, _, _)
remove_steps(J, e, i) ==
    IF i >= Len(SequenceDelay) THEN J ELSE remove_steps(remove_job(J, StepId(e, i)), e, i + 1)

cleanup(J, e) == remove_job(remove_steps(J, e, 0), TimeoutId(e))

\* a popup that stays open after its signal is emitted
popup_stays_open(p, s) == p

\* NotificationPopup.on_acknowledged / on_snoozed: after the signal is
\* emitted the popup closes itself.
close_popup(p, s) == IF p.s = s THEN [p EXCEPT !.visible = FALSE] ELSE p

\* ---------------------------------------------------- NotificationService
\* VoiceEngine.speak: skipped when the engine is not initialized, else a
\* speech thread is started; no call is refused because another is speaking.
voice_speak(V, count) == IF V.is_initialized THEN count + 1 ELSE count

NoNotification == [active |-> FALSE, acknowledged |-> FALSE, pc |-> "none",
                   steps |-> 0, details |-> 0]

\* NotificationService.__init__; VoiceEngine._init_engine sets
\* is_initialized, to False when pyttsx3 fails.
NotificationServiceNew(is_initialized) ==
    [voice_engine |-> [is_initialized |-> is_initialized],
     active_notifications |-> [n \in NotificationIds |-> NoNotification]]

\* SchedulerService.__init__, before init_scheduler
SchedulerServiceNew == [pc |-> "new", jobs |-> {}, passes |-> {}]

NoCall == [pc |-> "none"]

\* ------------------------------------------------------------------ state
Ev(id, start_time) == [id |-> id, start_time |-> start_time]

\* one event whose start moves by a few seconds between two fetches
OneEvent == {Ev("A", 598), Ev("A", 602)}
\* two events that start at the same instant
TwoEvents == {Ev("A", 598), Ev("B", 598)}

\* what a fetch may return: at most one record per event id
Calendars ==
    {c \in SUBSET catalog : \A x, y \in c : x.id = y.id => x = y}

Idle == [pc |-> "idle", events |-> {}]
UiIdle == [op |-> "idle", s |-> 0, pc |-> "idle"]
NoSession == [event |-> "-", start |-> 0, base_time |-> 0, registered |-> FALSE,
              live |-> FALSE]
NoPopup == [s |-> 0, visible |-> FALSE]

UiFree == ui = UiIdle /\ sync["ui"] = Idle

InitWith(cat) ==
    /\ now = 0
    /\ started = FALSE
    /\ catalog = cat
    /\ settings \in SettingsChoices
    /\ jobs = {}
    /\ sessions = [s \in SessionIds |-> NoSession]
    /\ popup = NoPopup
    /\ ui = UiIdle
    /\ sync = [th \in Threads |-> Idle]
    /\ running = {}
    /\ tts \in {TTSEngineNew(initialized) : initialized \in BOOLEAN}
    /\ displayed = {}
    /\ obs = [s \in SessionIds |-> NewObs]
    /\ svc = SchedulerServiceNew

Init ==
    /\ InitWith(OneEvent)
    /\ call = NoCall
    /\ tts.initialized
    /\ ns = NotificationServiceNew(TRUE)

\* the application starts although the audio engine failed to initialise
InitNoAudio ==
    /\ InitWith(OneEvent)
    /\ call = NoCall
    /\ ~tts.initialized
    /\ ns = NotificationServiceNew(TRUE)

InitTwo ==
    /\ InitWith(TwoEvents)
    /\ call = NoCall
    /\ settings.reminder_time = 5
    /\ tts.initialized
    /\ ns = NotificationServiceNew(TRUE)

\* sync_calendars up to the call of schedule_notifications: the events are
\* fetched and shown.
sync_begin(th) ==
    /\ sync[th] = Idle
    /\ \E events \in Calendars :
          /\ sync' = [sync EXCEPT ![th] = [pc |-> "schedule", events |-> events]]
          /\ displayed' = events

\* ChronoAI.run
Run ==
    /\ ~started
    /\ started' = TRUE
    /\ jobs' = add_job(jobs, Job(SyncId, now + SyncIntervalMinutes * TicksPerMinute,
                                  0, 0, "run"), FALSE).jobs
    /\ sync_begin("ui")
    /\ UNCHANGED <<ns, svc, call, now, catalog, settings, sessions, popup, ui, running, tts, obs>>

\* the refresh button and the tray's sync action
UserRefresh ==
    /\ started
    /\ UiFree
    /\ sync_begin("ui")
    /\ UNCHANGED <<ns, svc, call, now, started, catalog, settings, jobs, sessions, popup, ui,
                   running, tts, obs>>

\* open_settings, the dialog accepted
SettingsAccepted ==
    /\ started
    /\ UiFree
    /\ \E new \in SettingsChoices :
          /\ new # settings
          /\ settings' = new
    /\ sync_begin("ui")
    /\ UNCHANGED <<ns, svc, call, now, started, catalog, jobs, sessions, popup, ui, running, tts, obs>>

\* the recurring_sync job fires on a worker thread
FireSync ==
    /\ started
    /\ \E j \in jobs :
          /\ j.id = SyncId
          /\ j.run_at <= now
          /\ jobs' = (jobs \ {j}) \cup
                     {[j EXCEPT !.run_at = @ + SyncIntervalMinutes * TicksPerMinute]}
    /\ sync_begin("worker")
    /\ UNCHANGED <<ns, svc, call, now, started, catalog, settings, sessions, popup, ui, running,
                   tts, obs>>

\* schedule_notifications
schedule_notifications(th) ==
    /\ sync[th].pc = "schedule"
    /\ jobs' = schedule(purge(jobs, get_jobs(jobs)), sync[th].events, now,
                        settings.reminder_time)
    /\ sync' = [sync EXCEPT ![th] = Idle]
    /\ UNCHANGED <<ns, svc, call, now, started, catalog, settings, sessions, popup, ui, running,
                   tts, displayed, obs>>

FreeIds == {s \in SessionIds : ~sessions[s].live}

\* An event_notification_ job fires: trigger_notification_flow(event).
TriggerNotificationFlow ==
    /\ FreeIds # {}
    /\ \E j \in jobs :
          /\ startswith_event_notification(j.id)
          /\ j.run_at <= now
          /\ LET s == CHOOSE x \in FreeIds : \A y \in FreeIds : x <= y
                 e == j.id[2]
                 r == schedule_sequence(jobs \ {j}, s, e, now)
             IN  /\ popup' = [s |-> s, visible |-> TRUE]
                 /\ jobs' = r.jobs
                 /\ sessions' = [sessions EXCEPT ![s] =
                                   [event |-> e, start |-> j.start, base_time |-> now,
                                    registered |-> r.ok, live |-> TRUE]]
                 /\ obs' = [obs EXCEPT ![s] = NewObs]
    /\ UNCHANGED <<ns, svc, call, now, started, catalog, settings, ui, sync, running, tts, displayed>>

\* A step or timeout job is due: the scheduler hands it to a worker thread
\* and drops it from the store.
FireJob ==
    \E j \in jobs :
        /\ j.id[1] \in {"notification_step", "notification_timeout"}
        /\ j.run_at <= now
        /\ jobs' = jobs \ {j}
        /\ running' = running \cup {[kind |-> j.id[1], s |-> j.s, i |-> j.id[3]]}
        /\ UNCHANGED <<ns, svc, call, now, started, catalog, settings, sessions, popup, ui, sync,
                       tts, displayed, obs>>

\* a step job runs: tts_engine.speak(text, volume)
RunStep ==
    \E task \in running :
        /\ task.kind = "notification_step"
        /\ running' = running \ {task}
        /\ tts' = speak(tts, Utt("step", task.s, task.i), now)
        /\ obs' = Spoke(obs, task.s, "step", tts)
        /\ UNCHANGED <<ns, svc, call, now, started, catalog, settings, jobs, sessions, popup, ui,
                       sync, displayed>>

\* on_timeout
on_timeout ==
    \E task \in running :
        /\ task.kind = "notification_timeout"
        /\ running' = running \ {task}
        /\ popup' = [popup EXCEPT !.visible = FALSE]
        /\ tts' = speak(tts, Utt("timeout_details", task.s, 0), now)
        /\ obs' = Handled(Spoke(obs, task.s, "details", tts), task.s, "timeout")
        /\ UNCHANGED <<ns, svc, call, now, started, catalog, settings, jobs, sessions, ui, sync,
                       displayed>>

\* a speech thread ends
SpeechEnds ==
    \E th \in tts.threads :
        /\ tts' = speak_worker_done(tts, th)
        /\ UNCHANGED <<ns, svc, call, now, started, catalog, settings, jobs, sessions, popup, ui,
                       sync, running, displayed, obs>>

\* the user clicks a button of the visible popup
Click(op) ==
    /\ UiFree
    /\ popup.visible
    /\ ui' = [op |-> op, s |-> popup.s, pc |-> "stop"]
    /\ UNCHANGED <<ns, svc, call, now, started, catalog, settings, jobs, sessions, popup, sync,
                   running, tts, displayed, obs>>

\* on_acknowledged and on_snoozed up to the end of the clean-up loop.  When
\* tts_engine.stop() raises, the exception leaves the slot before any job is
\* removed; PyQt reports it and NotificationPopup goes on to close itself
\* (where PyQt aborts the process instead, nothing of the handler runs
\* either).
HandlerCleanup ==
    /\ ui.pc = "stop"
    /\ IF raises_AttributeError(tts)
       THEN /\ ui' = UiIdle
            /\ popup' = close_popup(popup, ui.s)
            /\ UNCHANGED <<tts, jobs>>
       ELSE /\ \E joined \in BOOLEAN : tts' = stop(tts, joined)
            /\ jobs' = cleanup(jobs, sessions[ui.s].event)
            /\ ui' = [ui EXCEPT !.pc = "finish"]
            /\ UNCHANGED popup
    /\ UNCHANGED <<ns, svc, call, now, started, catalog, settings, sessions, sync, running,
                   displayed, obs>>

\* on_acknowledged, the full details are spoken; the popup closes
on_acknowledged ==
    /\ ui.op = "ack"
    /\ ui.pc = "finish"
    /\ tts' = speak(tts, Utt("ack_details", ui.s, 0), now)
    /\ obs' = Handled(Spoke(obs, ui.s, "details", tts), ui.s, "ack")
    /\ popup' = close_popup(popup, ui.s)
    /\ ui' = UiIdle
    /\ UNCHANGED <<ns, svc, call, now, started, catalog, settings, jobs, sessions, sync, running,
                   displayed>>

\* on_snoozed, the reminder is scheduled again; the popup closes
on_snoozed ==
    /\ ui.op = "snooze"
    /\ ui.pc = "finish"
    /\ LET ev == sessions[ui.s]
       IN  jobs' = add_job(jobs,
                           Job(TopId(ev.event), snooze_time(now, settings.snooze_duration),
                               0, ev.start, "snooze"),
                           TRUE).jobs
    /\ obs' = Handled([obs EXCEPT ![ui.s].toast = @ + 1], ui.s, "snooze")
    /\ popup' = close_popup(popup, ui.s)
    /\ ui' = UiIdle
    /\ UNCHANGED <<ns, svc, call, now, started, catalog, settings, sessions, sync, running, tts,
                   displayed>>

\* ------------------------------------------------------------------- time
Due == {j \in jobs : j.run_at <= now}

\* nothing is left to do at this instant
Quiet ==
    /\ Due = {}
    /\ running = {}
    /\ ui = UiIdle
    /\ \A th \in Threads : sync[th] = Idle
    /\ \A th \in tts.threads : ~th.stopped /\ now + 1 <= th.started + MaxUtterance

InSession ==
    \/ tts.threads # {}
    \/ \E j \in jobs : j.id[1] \in {"notification_step", "notification_timeout"}

NextDue == CHOOSE t \in {j.run_at : j \in jobs} : \A j \in jobs : t <= j.run_at

\* a session of which no job, task, speech or visible popup is left
Over(s) ==
    /\ \A j \in jobs : j.s # s
    /\ \A th \in tts.threads : th.utt.s # s
    /\ ~(popup.visible /\ popup.s = s)

\* The clock advances: by one tick while a session is escalating, else to
\* the next due job.  Sessions that are over are forgotten.
Tick ==
    /\ started
    /\ Quiet
    /\ now' = IF InSession THEN now + 1 ELSE NextDue
    /\ now' <= MaxTime
    /\ sessions' = [s \in SessionIds |-> IF Over(s) THEN NoSession ELSE sessions[s]]
    /\ obs' = [s \in SessionIds |-> IF Over(s) THEN NewObs ELSE obs[s]]
    /\ popup' = IF popup.visible THEN popup ELSE NoPopup
    /\ UNCHANGED <<ns, svc, call, started, catalog, settings, jobs, ui, sync, running, tts, displayed>>

Next ==
    \/ Run
    \/ UserRefresh
    \/ FireSync
    \/ \E th \in Threads : schedule_notifications(th)
    \/ TriggerNotificationFlow
    \/ FireJob
    \/ RunStep
    \/ on_timeout
    \/ SpeechEnds
    \/ Click("ack")
    \/ Click("snooze")
    \/ HandlerCleanup
    \/ on_acknowledged
    \/ on_snoozed
    \/ Tick

\* one event, under fixed settings: start-up, periodic and on-demand sync
\* passes, reminders, escalation, and the user's clicks
Spec == Init /\ [][Next]_vars

NextTwo ==
    \/ Run
    \/ FireSync
    \/ \E th \in Threads : schedule_notifications(th)
    \/ TriggerNotificationFlow
    \/ FireJob
    \/ RunStep
    \/ on_timeout
    \/ SpeechEnds
    \/ Click("ack")
    \/ Click("snooze")
    \/ HandlerCleanup
    \/ on_acknowledged
    \/ on_snoozed
    \/ Tick

NextNoAudio ==
    \/ Run
    \/ UserRefresh
    \/ FireSync
    \/ \E th \in Threads : schedule_notifications(th)
    \/ TriggerNotificationFlow
    \/ FireJob
    \/ RunStep
    \/ on_timeout
    \/ Click("ack")
    \/ Click("snooze")
    \/ HandlerCleanup
    \/ Tick

\* one event, the audio engine unavailable since start-up: no speech worker
\* is ever started, and no handler reaches its second half
SpecNoAudio == InitNoAudio /\ [][NextNoAudio]_vars

\* two events; the only sync passes are the first one and the periodic one
SpecTwo == InitTwo /\ [][NextTwo]_vars

\* ---------------------------------------------------- NotificationService
Note(n) == ns.active_notifications[n]

SetNote(n, r) == ns' = [ns EXCEPT !.active_notifications[n] = r]

InitNotifications ==
    /\ InitWith(OneEvent)
    /\ settings.reminder_time = 5
    /\ call = NoCall
    /\ tts.initialized
    /\ \E is_initialized \in BOOLEAN : ns = NotificationServiceNew(is_initialized)

\* show_notification: the entry is stored and the sequence thread started.
\* Notification ids carry the time of the call, so they are taken in order.
show_notification(n) ==
    /\ Note(n).pc = "none"
    /\ \A m \in NotificationIds : m < n => Note(m).pc # "none"
    /\ SetNote(n, [Note(n) EXCEPT !.active = TRUE, !.pc = "whisper"])
    /\ UNCHANGED <<chronoVars, svc, call>>

\* a test that never sees the flag
ignores_acknowledged(note) == TRUE

\* if not notification_info['acknowledged']
not_acknowledged(note) == ~note.acknowledged

\* _run_notification_sequence, one of its three speak-and-sleep steps
SequenceStep(n, at, next) ==
    /\ Note(n).pc = at
    /\ SetNote(n, [Note(n) EXCEPT
                     !.steps = IF not_acknowledged(Note(n))
                               THEN voice_speak(ns.voice_engine, @)
                               ELSE @,
                     !.pc = next])
    /\ UNCHANGED <<chronoVars, svc, call>>

\* _show_popup_notification: QMessageBox.exec() is entered on the sequence
\* thread, which is not the GUI thread; it blocks until the dialog is
\* closed, or raises and the exception is logged.
ShowPopup(n) ==
    /\ Note(n).pc = "popup"
    /\ \E shown \in BOOLEAN :
          SetNote(n, [Note(n) EXCEPT !.pc = IF ~not_acknowledged(Note(n)) \/ ~shown
                                            THEN "details"
                                            ELSE "exec"])
    /\ UNCHANGED <<chronoVars, svc, call>>

\* The user closes the dialog: exec() returns; when the result compares
\* equal to ButtonRole.AcceptRole, _acknowledge_notification runs.
Dismiss(n) ==
    /\ Note(n).pc = "exec"
    /\ \E accepted \in BOOLEAN :
          SetNote(n, IF accepted /\ Note(n).active
                     THEN [Note(n) EXCEPT !.acknowledged = TRUE,
                                          !.details = voice_speak(ns.voice_engine, @),
                                          !.pc = "details"]
                     ELSE [Note(n) EXCEPT !.pc = "details"])
    /\ UNCHANGED <<chronoVars, svc, call>>

\* _run_notification_sequence: the full details when not acknowledged
SpeakFullDetails(n) ==
    /\ Note(n).pc = "details"
    /\ SetNote(n, [Note(n) EXCEPT
                     !.details = IF not_acknowledged(Note(n))
                                 THEN voice_speak(ns.voice_engine, @)
                                 ELSE @,
                     !.pc = "cleanup"])
    /\ UNCHANGED <<chronoVars, svc, call>>

\* _run_notification_sequence: del self.active_notifications[notification_id]
CleanUp(n) ==
    /\ Note(n).pc = "cleanup"
    /\ SetNote(n, [Note(n) EXCEPT !.active = FALSE, !.pc = "done"])
    /\ UNCHANGED <<chronoVars, svc, call>>

\* a step of the sequence thread of notification n that needs no user
SequenceThread(n) ==
    \/ SequenceStep(n, "whisper", "louder")
    \/ SequenceStep(n, "louder", "normal")
    \/ SequenceStep(n, "normal", "popup")
    \/ ShowPopup(n)
    \/ SpeakFullDetails(n)
    \/ CleanUp(n)

NextNotifications ==
    \/ \E n \in NotificationIds : show_notification(n)
    \/ \E n \in NotificationIds : SequenceStep(n, "whisper", "louder")
    \/ \E n \in NotificationIds : SequenceStep(n, "louder", "normal")
    \/ \E n \in NotificationIds : SequenceStep(n, "normal", "popup")
    \/ \E n \in NotificationIds : ShowPopup(n)
    \/ \E n \in NotificationIds : Dismiss(n)
    \/ \E n \in NotificationIds : SpeakFullDetails(n)
    \/ \E n \in NotificationIds : CleanUp(n)

\* NotificationService: every sequence thread keeps running; the user may
\* never touch a dialog.
SpecNotifications ==
    /\ InitNotifications
    /\ [][NextNotifications]_vars
    /\ \A n \in NotificationIds : WF_vars(SequenceThread(n))

\* ------------------------------------------- one call of sync_calendars
\* what the two providers may hold
GoogleCatalog == {Ev("g1", 598), Ev("g2", 602)}
ZohoCatalog == {Ev("z1", 598), Ev("z2", NoneValue), Ev("z3", Malformed)}

\* How a provider's fetch ends.  "failed" is a failure fetch_events catches
\* (it returns []); "raised" one it does not catch: ZohoCalendarService
\* catches requests' RequestException only, so a token or calendar answer
\* without the expected key leaves it as KeyError.  GoogleCalendarService
\* catches every Exception.
Outcome(status, events) == [status |-> status, events |-> events]

GoogleOutcomes ==
    {Outcome("ok", c) : c \in SUBSET GoogleCatalog}
        \cup {Outcome("failed", {}), Outcome("not_connected", {})}

ZohoOutcomes ==
    {Outcome("ok", c) : c \in SUBSET ZohoCatalog}
        \cup {Outcome("failed", {}), Outcome("raised", {}), Outcome("not_connected", {})}

\* the events of the providers whose fetch succeeded
Fetched(c) == c.google.events \cup c.zoho.events

\* all_events.sort(key=isoparse): how the sort may end, "ok" or with the
\* exception of the first key that fails (the order of the list decides)
sort_outcomes(all_events) ==
    LET failing == {isoparse(ev.start_time) : ev \in all_events} \ {"ok"}
    IN  IF failing # {} THEN failing
        ELSE IF \E x, y \in all_events : later(x.start_time, y.start_time) = "TypeError"
        THEN {"TypeError"}
        ELSE {"ok"}

InitFetch ==
    /\ InitWith(GoogleCatalog \cup ZohoCatalog)
    /\ tts.initialized
    /\ ns = NotificationServiceNew(TRUE)
    /\ \E g \in GoogleOutcomes, z \in ZohoOutcomes :
          call = [pc |-> "fetch", google |-> g, zoho |-> z, events |-> {}]

\* EventManager.get_unified_events
get_unified_events ==
    /\ call.pc = "fetch"
    /\ IF call.zoho.status = "raised"
       THEN call' = [call EXCEPT !.pc = "raised"]
       ELSE \E sorting \in sort_outcomes(Fetched(call)) :
               call' = IF sorting = "ok" \/ caught(sorting)
                       THEN [call EXCEPT !.pc = "show", !.events = Fetched(call)]
                       ELSE [call EXCEPT !.pc = "raised"]
    /\ UNCHANGED <<chronoVars, ns, svc>>

\* MainWindow.update_events: the list is cleared and filled event by event;
\* an exception that is not caught leaves it with the events before.
update_events ==
    /\ call.pc = "show"
    /\ LET uncaught == {ev \in call.events : isoparse(ev.start_time) = "ValueError"}
       IN  IF uncaught = {}
           THEN /\ displayed' = call.events
                /\ call' = [call EXCEPT !.pc = "schedule"]
           ELSE /\ \E before \in SUBSET (call.events \ uncaught) : displayed' = before
                /\ call' = [call EXCEPT !.pc = "raised"]
    /\ UNCHANGED <<now, started, catalog, settings, jobs, sessions, popup, ui, sync,
                   running, tts, obs, ns, svc>>

\* ChronoAI.schedule_notifications, as the last step of the call
schedule_fetched ==
    /\ call.pc = "schedule"
    /\ jobs' = schedule(purge(jobs, get_jobs(jobs)), call.events, now,
                        settings.reminder_time)
    /\ call' = [call EXCEPT !.pc = "done"]
    /\ UNCHANGED <<now, started, catalog, settings, sessions, popup, ui, sync,
                   running, tts, displayed, obs, ns, svc>>

NextFetch ==
    \/ get_unified_events
    \/ update_events
    \/ schedule_fetched

\* one call of sync_calendars, for every way the two fetches may end
SpecFetch == InitFetch /\ [][NextFetch]_vars

\* Providers whose timed events carry a UTC offset, as Google's dateTime
\* does; z2 has none.
ZonedGoogleCatalog == {Ev("g1", Aware(598)), Ev("g2", Aware(602))}
ZonedZohoCatalog == {Ev("z1", Aware(598)), Ev("z2", 598)}

InitZoned ==
    /\ InitWith(ZonedGoogleCatalog \cup ZonedZohoCatalog)
    /\ tts.initialized
    /\ ns = NotificationServiceNew(TRUE)
    /\ \E g \in SUBSET ZonedGoogleCatalog, z \in SUBSET ZonedZohoCatalog,
          gs, zs \in {"ok", "not_connected"} :
          call = [pc |-> "fetch",
                  google |-> Outcome(gs, IF gs = "ok" THEN g ELSE {}),
                  zoho |-> Outcome(zs, IF zs = "ok" THEN z ELSE {}),
                  events |-> {}]

\* one call of sync_calendars over events with UTC offsets
SpecZoned == InitZoned /\ [][NextFetch]_vars

\* ------------------------------------------------------ SchedulerService
CalendarSyncId == <<"calendar_sync", "-", 0>>
NotificationId(e) == <<"notification", e, 0>>

\* what CalendarManager may return
ServiceCatalog == {Ev("A", 700), Ev("B", 1000)}

\* the threads that call SchedulerService.sync_calendars: __init__, the
\* scheduler's worker for the cron job, the main window after a connection
ServiceThreads == {"init", "cron", "manual"}

Pass(th, pc, events) == [th |-> th, pc |-> pc, events |-> events]

Running(th) == \E p \in svc.passes : p.th = th

\* CronTrigger(minute="*/10"): the next boundary after t
next_fire_time(t) ==
    ((t \div (SyncIntervalMinutes * TicksPerMinute)) + 1)
        * (SyncIntervalMinutes * TicksPerMinute)

InitService ==
    /\ InitWith(ServiceCatalog)
    /\ call = NoCall
    /\ tts.initialized
    /\ ns = NotificationServiceNew(TRUE)

\* init_scheduler up to its call of sync_calendars: the scheduler is
\* started and the cron job added
init_scheduler ==
    /\ svc.pc = "new"
    /\ svc' = [svc EXCEPT
                 !.pc = "syncing",
                 !.jobs = add_job(@, Job(CalendarSyncId, next_fire_time(now), 0, 0,
                                         "init"), TRUE).jobs,
                 !.passes = {Pass("init", "fetch", {})}]
    /\ UNCHANGED <<chronoVars, ns, call>>

\* the scheduler runs the cron job on a worker and computes its next run
FireCalendarSync ==
    /\ ~Running("cron")
    /\ \E j \in svc.jobs :
          /\ j.id = CalendarSyncId
          /\ j.run_at <= now
          /\ svc' = [svc EXCEPT
                       !.jobs = (@ \ {j}) \cup {[j EXCEPT !.run_at = next_fire_time(now)]},
                       !.passes = @ \cup {Pass("cron", "fetch", {})}]
    /\ UNCHANGED <<chronoVars, ns, call>>

\* MainWindow.connect_calendar: "Trigger a manual sync"
ManualSync ==
    /\ svc.pc = "ready"
    /\ ~Running("manual")
    /\ svc' = [svc EXCEPT !.passes = @ \cup {Pass("manual", "fetch", {})}]
    /\ UNCHANGED <<chronoVars, ns, call>>

\* sync_calendars: self.events = self.calendar_manager.get_all_events(),
\* which catches every failure of a provider and leaves its events out
get_all_events(th) ==
    /\ \E p \in svc.passes, events \in SUBSET catalog :
          /\ p.th = th
          /\ p.pc = "fetch"
          /\ svc' = [svc EXCEPT
                       !.passes = (@ \ {p}) \cup {Pass(th, "schedule", events)}]
    /\ UNCHANGED <<chronoVars, ns, call>>

\* schedule_event_notification, for every event of the list
RECURSIVE schedule_event_notifications(_, _, _)
schedule_event_notifications(J, events, t) ==
    IF events = {} THEN J
    ELSE LET ev == CHOOSE x \in events : TRUE
             at == ev.start_time - ServiceReminderMinutes * TicksPerMinute
         IN  schedule_event_notifications(
                 IF at > t
                 THEN add_job(J, Job(NotificationId(ev.id), at, 0, ev.start_time,
                                     "sync"), TRUE).jobs
                 ELSE J,
                 events \ {ev}, t)

\* sync_calendars after the fetch: remove_job('calendar_sync'), then the
\* notifications of the events
sync_calendars(th) ==
    /\ \E p \in svc.passes :
          /\ p.th = th
          /\ p.pc = "schedule"
          /\ svc' = [svc EXCEPT
                       !.pc = IF th = "init" THEN "ready" ELSE @,
                       !.jobs = schedule_event_notifications(
                                    remove_job(@, CalendarSyncId), p.events, now),
                       !.passes = @ \ {p}]
    /\ UNCHANGED <<chronoVars, ns, call>>

\* trigger_notification: the job's date has come; show_notification
trigger_notification ==
    /\ \E j \in svc.jobs, n \in NotificationIds :
          /\ j.id[1] = "notification"
          /\ j.run_at <= now
          /\ Note(n).pc = "none"
          /\ \A m \in NotificationIds : m < n => Note(m).pc # "none"
          /\ svc' = [svc EXCEPT !.jobs = @ \ {j}]
          /\ SetNote(n, [Note(n) EXCEPT !.active = TRUE, !.pc = "whisper"])
    /\ UNCHANGED <<chronoVars, call>>

\* the clock advances to the next run time of a job
ServiceTick ==
    /\ svc.jobs # {}
    /\ \A j \in svc.jobs : j.run_at > now
    /\ \E t \in {j.run_at : j \in svc.jobs} :
          /\ \A j \in svc.jobs : t <= j.run_at
          /\ t <= MaxTime
          /\ now' = t
    /\ UNCHANGED <<started, catalog, settings, jobs, sessions, popup, ui, sync,
                   running, tts, displayed, obs, ns, svc, call>>

NextService ==
    \/ init_scheduler
    \/ FireCalendarSync
    \/ ManualSync
    \/ \E th \in ServiceThreads : get_all_events(th)
    \/ \E th \in ServiceThreads : sync_calendars(th)
    \/ trigger_notification
    \/ ServiceTick
    \/ \E n \in NotificationIds : SequenceStep(n, "whisper", "louder")
    \/ \E n \in NotificationIds : SequenceStep(n, "louder", "normal")
    \/ \E n \in NotificationIds : SequenceStep(n, "normal", "popup")
    \/ \E n \in NotificationIds : ShowPopup(n)
    \/ \E n \in NotificationIds : Dismiss(n)
    \/ \E n \in NotificationIds : SpeakFullDetails(n)
    \/ \E n \in NotificationIds : CleanUp(n)

SpecService == InitService /\ [][NextService]_vars

\* ------------------------------- schedule_notifications, statement by statement
\* two events whose reminders are not due before MaxTime
LateEvents == {Ev("A", 1000), Ev("B", 1040)}

InitSettings ==
    /\ InitWith(LateEvents)
    /\ call = NoCall
    /\ tts.initialized
    /\ ns = NotificationServiceNew(TRUE)

\* schedule_notifications up to its second loop: the event_notification_
\* jobs are removed, then now and reminder_minutes are read into locals
schedule_purge(th) ==
    /\ sync[th].pc = "schedule"
    /\ jobs' = purge(jobs, get_jobs(jobs))
    /\ sync' = [sync EXCEPT ![th] = [pc |-> "add", events |-> sync[th].events,
                                     now |-> now,
                                     reminder_minutes |-> settings.reminder_time]]
    /\ UNCHANGED <<ns, svc, call, now, started, catalog, settings, sessions, popup, ui,
                   running, tts, displayed, obs>>

\* schedule_notifications, the second loop, with the locals read before it
schedule_add(th) ==
    /\ sync[th].pc = "add"
    /\ jobs' = schedule(jobs, sync[th].events, sync[th].now, sync[th].reminder_minutes)
    /\ sync' = [sync EXCEPT ![th] = Idle]
    /\ UNCHANGED <<ns, svc, call, now, started, catalog, settings, sessions, popup, ui,
                   running, tts, displayed, obs>>

NextSettings ==
    \/ Run
    \/ UserRefresh
    \/ SettingsAccepted
    \/ FireSync
    \/ \E th \in Threads : schedule_purge(th)
    \/ \E th \in Threads : schedule_add(th)
    \/ Tick

\* the sync passes of the UI thread and of the scheduler's worker, with the
\* settings dialog
SpecSettings == InitSettings /\ [][NextSettings]_vars

\* ------------------------------- get_unified_events, the order of its list
\* Google: two timed events and an all-day event, whose start is a date
\* without offset; Zoho: two timed events and one without starttime
GoogleEvents == {Ev("g1", Aware(400)), Ev("g2", Aware(560)), Ev("g3", 0)}
ZohoEvents == {Ev("z1", Aware(360)), Ev("z2", Aware(440)), Ev("z3", NoneValue)}

Range(q) == {q[i] : i \in 1 .. Len(q)}

\* the lists a provider may return: up to MaxFetched of its events, in any order
Lists(events) ==
    {q \in UNION {[1 .. n -> events] : n \in 0 .. MaxFetched} :
        \A i, j \in 1 .. Len(q) : q[i] = q[j] => i = j}

Orders(q) ==
    {r \in [1 .. Len(q) -> Range(q)] : Range(r) = Range(q)}

\* the first key that isoparse fails on, in the order of the list
RECURSIVE first_failure(_)
first_failure(q) ==
    IF q = <<>> THEN "ok"
    ELSE IF isoparse(Head(q).start_time) # "ok" THEN isoparse(Head(q).start_time)
    ELSE first_failure(Tail(q))

\* list.sort is stable: an element goes behind those that are not later
RECURSIVE insert(_, _)
insert(q, ev) ==
    IF q = <<>> THEN <<ev>>
    ELSE IF instant(ev.start_time) < instant(Head(q).start_time)
    THEN <<ev>> \o q
    ELSE <<Head(q)>> \o insert(Tail(q), ev)

RECURSIVE sorted(_)
sorted(q) ==
    IF q = <<>> THEN <<>>
    ELSE insert(sorted(SubSeq(q, 1, Len(q) - 1)), q[Len(q)])

\* all_events.sort(key=isoparse) inside try/except (ParserError, TypeError):
\* the lists it may leave, or the exception goes on.  The keys are computed first, and a
\* failing key leaves the list as it was; a comparison that raises leaves
\* the list in an order the sort had reached.
sort_results(all_events) ==
    LET failure == first_failure(all_events)
    IN  IF failure # "ok"
        THEN {[raised |-> ~caught(failure), list |-> all_events]}
        ELSE IF \E x, y \in Range(all_events) :
                   later(x.start_time, y.start_time) = "TypeError"
        THEN {[raised |-> FALSE, list |-> q] : q \in Orders(all_events)}
        ELSE {[raised |-> FALSE, list |-> sorted(all_events)]}

\* what the two fetches contribute
all_events(c) ==
    (IF c.google_token THEN c.google_events ELSE <<>>)
        \o (IF c.zoho_token THEN c.zoho_events ELSE <<>>)

InitMerge ==
    /\ InitWith(GoogleEvents \cup ZohoEvents)
    /\ tts.initialized
    /\ ns = NotificationServiceNew(TRUE)
    /\ \E g \in Lists(GoogleEvents), z \in Lists(ZohoEvents), gt, zt \in BOOLEAN :
          call = [pc |-> "merge", google_token |-> gt, google_events |-> g,
                  zoho_token |-> zt, zoho_events |-> z, result |-> <<>>]

\* EventManager.get_unified_events, with its lists
merge_and_sort ==
    /\ call.pc = "merge"
    /\ IF all_events(call) = <<>>
       THEN call' = [call EXCEPT !.pc = "returned"]
       ELSE \E r \in sort_results(all_events(call)) :
               call' = IF r.raised
                       THEN [call EXCEPT !.pc = "raised"]
                       ELSE [call EXCEPT !.pc = "returned", !.result = r.list]
    /\ UNCHANGED <<chronoVars, ns, svc>>

SpecMerge == InitMerge /\ [][merge_and_sort]_vars

\* ------------------------------------------------- Scheduler.start
\* Scheduler.__new__: the BackgroundScheduler is created, not started
SchedulerNew == [running |-> FALSE, atexit |-> 0]

\* a start that does not look at the running state
start_unguarded(S) == [S EXCEPT !.running = TRUE, !.atexit = @ + 1]

\* Scheduler.start: only when the scheduler is not running it is started and
\* shutdown is registered with atexit
start(S) ==
    IF ~S.running
    THEN [S EXCEPT !.running = TRUE, !.atexit = @ + 1]
    ELSE S

\* Scheduler.shutdown
shutdown(S) == IF S.running THEN [S EXCEPT !.running = FALSE] ELSE S

\* the jobs the callers add and remove
StartJobs ==
    {Job(SyncId, SyncIntervalMinutes * TicksPerMinute, 0, 0, "run"),
     Job(TopId("A"), 398, 0, 598, "sync"),
     Job(TopId("B"), 398, 0, 598, "sync")}

InitStart ==
    /\ InitWith(TwoEvents)
    /\ tts.initialized
    /\ ns = NotificationServiceNew(TRUE)
    /\ call = [pc |-> "scheduler", scheduler |-> SchedulerNew, starts |-> 0,
               last |-> "new"]

SchedulerStart ==
    /\ call.pc = "scheduler"
    /\ call.starts < MaxStarts
    /\ call' = [call EXCEPT !.scheduler = start(@),
                            !.starts = @ + 1,
                            !.last = IF call.scheduler.running
                                     THEN "start_again" ELSE "start"]
    /\ UNCHANGED <<chronoVars, ns, svc>>

\* Whether the job store keeps its jobs over a shutdown is the library's
\* matter: both are allowed here.
SchedulerShutdown ==
    /\ call.pc = "scheduler"
    /\ call.scheduler.running
    /\ call' = [call EXCEPT !.scheduler = shutdown(@), !.last = "shutdown"]
    /\ \E kept \in BOOLEAN : jobs' = IF kept THEN jobs ELSE {}
    /\ UNCHANGED <<now, started, catalog, settings, sessions, popup, ui, sync,
                   running, tts, displayed, obs, ns, svc>>

SchedulerAddJob ==
    /\ call.pc = "scheduler"
    /\ \E job \in StartJobs : jobs' = add_job(jobs, job, TRUE).jobs
    /\ call' = [call EXCEPT !.last = "add_job"]
    /\ UNCHANGED <<now, started, catalog, settings, sessions, popup, ui, sync,
                   running, tts, displayed, obs, ns, svc>>

SchedulerRemoveJob ==
    /\ call.pc = "scheduler"
    /\ \E job \in StartJobs : jobs' = remove_job(jobs, job.id)
    /\ call' = [call EXCEPT !.last = "remove_job"]
    /\ UNCHANGED <<now, started, catalog, settings, sessions, popup, ui, sync,
                   running, tts, displayed, obs, ns, svc>>

NextStart ==
    \/ SchedulerStart
    \/ SchedulerShutdown
    \/ SchedulerAddJob
    \/ SchedulerRemoveJob

\* the Scheduler wrapper under any sequence of calls
SpecStart == InitStart /\ [][NextStart]_vars

\* ------------------------------------------------------------------ claims
StepJobs == {j \in jobs : j.id[1] = "notification_step"}
TimeoutJobs == {j \in jobs : j.id[1] = "notification_timeout"}
TopJobs == {j \in jobs : j.id[1] = "event_notification"}

\* the delay of step i from the session start, as the sequence states it:
\* each step's delay counts from the step before it
RECURSIVE DelayFromStart(_)
DelayFromStart(i) == IF i = 0 THEN SequenceDelay[1] ELSE DelayFromStart(i - 1) + SequenceDelay[i + 1]

\* C1: the step jobs of a session started at t0 are registered at t0, t0+3.0 s
\* and t0+6.0 s (each step's delay added to the one before it) and the timeout
\* job at t0+7.5 s.
C1_StepRunTimes ==
    /\ \A j \in StepJobs :
          j.run_at = sessions[j.s].base_time + DelayFromStart(j.id[3])
    /\ \A j \in TimeoutJobs :
          j.run_at = sessions[j.s].base_time + SumSeq(SequenceDelay) + TimeoutBuffer

\* C2: every registration through add_job replaces a pending job of the same
\* id without failing: no session's registration of its step and timeout jobs
\* is refused, and no id has two pending jobs.
C2_AddReplaces ==
    /\ \A s \in SessionIds : sessions[s].live => sessions[s].registered
    /\ \A j, k \in jobs : j.id = k.id => j = k

\* C3: when a sync pass completes, no job (top-level, step or timeout) is
\* pending for an event that the pass did not fetch.
C3_NoJobForAbsentEvent ==
    [][\A th \in Threads :
          (sync[th].pc = "schedule" /\ sync'[th].pc = "idle")
          => \A j \in jobs' :
                j.id # SyncId => \E ev \in sync[th].events : ev.id = j.id[2]]_vars

\* a step of the acknowledge or timeout handler of session s
HandlerStepOf(s) ==
    \/ ui.op = "ack" /\ ui.s = s /\ ui' # ui
    \/ \E task \in running \ running' : task.kind = "notification_timeout" /\ task.s = s

\* C4: once a session has resolved (a handler of it has completed), a later
\* run of its acknowledge or timeout handler makes no speak request and
\* changes no job.
C4_ResolutionIdempotent ==
    [][\A s \in SessionIds :
          (sessions[s].live /\ Resolved(obs[s]) /\ HandlerStepOf(s))
          => /\ obs'[s].detailReq = obs[s].detailReq
             /\ jobs' = jobs]_vars

\* C5: the full details of a session are spoken at most once, however the
\* timeout job and the acknowledge handler interleave.
C5_DetailsAtMostOnce ==
    \A s \in SessionIds : obs[s].detailStarted <= 1

C7_AcknowledgeSpeaksOnce ==
    \A s \in SessionIds :
        "ack" \in obs[s].handlers
        => /\ \A j \in StepJobs \cup TimeoutJobs : j.s # s
           /\ obs[s].detailStarted = 1
           /\ obs[s].after = 0

\* C8: the step of on_snoozed that ends the handler leaves no step or
\* timeout job of the session pending and exactly one event_notification_
\* job of the event, at now + snooze_duration minutes, and shows one toast;
\* no full-detail speech is started for a session that was snoozed.
C8_SnoozeReschedules ==
    [][/\ (ui.op = "snooze" /\ ui.pc = "finish" /\ ui' = UiIdle)
          => LET s == ui.s
                 e == sessions[s].event
                 top == {j \in jobs' : j.id = TopId(e)}
             IN  /\ \A j \in jobs' :
                       j.id[1] \in {"notification_step", "notification_timeout"} => j.s # s
                 /\ Cardinality(top) = 1
                 /\ \A j \in top :
                       j.run_at = now + settings.snooze_duration * TicksPerMinute
                 /\ obs'[s].toast = obs[s].toast + 1
       /\ \A s \in SessionIds :
             "snooze" \in obs[s].handlers => obs'[s].detailStarted = obs[s].detailStarted]_vars

\* C9: the job a snooze registers stays pending until it is due and fires,
\* whatever sync passes run in between.
C9_SnoozedJobStays ==
    [][\A j \in TopJobs :
          j.origin = "snooze" => (j \in jobs' \/ j.run_at <= now)]_vars

\* C10: every session that starts terminates without user input: the entry
\* of a started notification is eventually deleted from active_notifications.
C10_SessionTerminates ==
    \A n \in NotificationIds :
        Note(n).active ~> (~Note(n).active /\ Note(n).pc = "done")

\* C11: a sync pass shows every fetched event, and creates no job for a
\* fetched event whose notification time is not after the current time.
C11_PastEventNotScheduled ==
    [][\A th \in Threads :
          /\ (sync[th] = Idle /\ sync'[th].pc = "schedule")
             => displayed' = sync'[th].events
          /\ (sync[th].pc = "schedule" /\ sync'[th] = Idle)
             => \A ev \in sync[th].events :
                   notification_time(ev.start_time, settings.reminder_time) <= now
                   => ~HasJob(jobs', TopId(ev.id))]_vars

\* the periodic pass of this instant has completed for an event whose
\* notification time has come
C11_Witness ==
    /\ started
    /\ \A th \in Threads : sync[th] = Idle
    /\ \E j \in jobs : j.id = SyncId /\ j.run_at = now + SyncIntervalMinutes * TicksPerMinute
    /\ \E ev \in displayed :
          /\ notification_time(ev.start_time, settings.reminder_time) <= now
          /\ ~HasJob(jobs, TopId(ev.id))

\* C12: within a session the step jobs are registered in non-decreasing time
\* order of their indexes, and the timeout job strictly after every step job.
C12_FireTimesOrdered ==
    /\ \A j, k \in StepJobs :
          (j.s = k.s /\ j.id[3] < k.id[3]) => j.run_at <= k.run_at
    /\ \A j \in StepJobs : \A k \in TimeoutJobs :
          j.s = k.s => j.run_at < k.run_at

C12_Witness ==
    \E s \in SessionIds :
        /\ sessions[s].registered
        /\ \A i \in StepIndexes : \E j \in StepJobs : j.s = s /\ j.id[3] = i
        /\ \E k \in TimeoutJobs : k.s = s

\* every job id the application uses
JobIds ==
    {SyncId} \cup
    UNION {{TopId(ev.id), TimeoutId(ev.id)} \cup {StepId(ev.id, i) : i \in StepIndexes} :
              ev \in catalog}

\* the ids the clean-up loop of a handler removes for event e
SessionJobIds(e) == {TimeoutId(e)} \cup {StepId(e, i) : i \in StepIndexes}

\* C14: remove_job of an id without a pending job leaves the store as it is,
\* of a pending id removes that job and no other; the clean-up of a handler
\* completes whichever of its jobs have already fired.
C14_RemoveJobBenign ==
    [][/\ \A id \in JobIds :
             IF HasJob(jobs, id)
             THEN /\ Cardinality(jobs \ remove_job(jobs, id)) = 1
                  /\ \A j \in jobs : j \in remove_job(jobs, id) <=> j.id # id
             ELSE remove_job(jobs, id) = jobs
       /\ (ui.pc = "stop" /\ ui' # ui)
          => /\ ui'.pc = "finish"
             /\ jobs' = {j \in jobs : j.id \notin SessionJobIds(sessions[ui.s].event)}]_vars

\* the clean-up has run although a job of the session had already fired
C14_Witness ==
    /\ ui.pc = "finish"
    /\ \E task \in running : task.s = ui.s
    /\ \E i \in StepIndexes : HasJob(jobs, StepId(sessions[ui.s].event, i)) = FALSE

\* a step of the handler (acknowledge, snooze or timeout) of session s
ResolutionStepOf(s) ==
    \/ ui.s = s /\ ui.op \in {"ack", "snooze"} /\ ui' # ui
    \/ \E task \in running \ running' : task.kind = "notification_timeout" /\ task.s = s

\* C13: sessions of two events never share a job id: the registration of a
\* session is never refused and touches no job of another event, and a step
\* of acknowledge, snooze or timeout of a session adds and removes only jobs
\* of its own event.
C13_IndependentSessions ==
    [][\A s \in SessionIds :
          /\ (~sessions[s].live /\ sessions'[s].live)
             => /\ sessions'[s].registered
                /\ \A j \in jobs \cup jobs' :
                      j.id[2] # sessions'[s].event /\ j.id # SyncId
                      => (j \in jobs /\ j \in jobs')
          /\ (sessions[s].live /\ ResolutionStepOf(s))
             => \A j \in jobs \cup jobs' :
                   j.id[2] # sessions[s].event => (j \in jobs /\ j \in jobs')]_vars

\* two sessions of different events started at the same instant; one has
\* been resolved while the timeout job of the other is pending
C13_Witness ==
    \E s, r \in SessionIds :
        /\ sessions[s].live /\ sessions[r].live
        /\ sessions[s].event # sessions[r].event
        /\ sessions[s].base_time = sessions[r].base_time
        /\ Resolved(obs[s])
        /\ \E k \in TimeoutJobs : k.s = r /\ k.id = TimeoutId(sessions[r].event)

\* the speech workers that are running and were not stopped
InFlight == {th \in tts.threads : ~th.stopped}

\* C15: at most one utterance is in flight in the audio engine: a speak call
\* made while one is in flight starts no second speech worker.
C15_OneUtteranceInFlight == Cardinality(InFlight) <= 1

\* C16: with an audio engine that failed to initialise, acknowledge and
\* snooze still cancel the step and timeout jobs of the session's event, and
\* snooze still registers event_notification_<id> again.
C16_DegradesToPopupOnly ==
    [][(ui.op \in {"ack", "snooze"} /\ ui' = UiIdle)
       => LET e == sessions[ui.s].event
          IN  /\ \A j \in jobs' : j.id \notin SessionJobIds(e)
              /\ ui.op = "snooze" => HasJob(jobs', TopId(e))]_vars

\* the call has ended, by returning or by an exception
Ended == call.pc \in {"done", "raised"}

BadEvents(c) == {ev \in Fetched(c) : isoparse(ev.start_time) # "ok"}

\* C17: a fetched event whose start_time is missing or malformed is skipped
\* and nothing propagates: the call returns and every other fetched event
\* whose notification time is ahead has its event_notification_ job.
C17_BadEventSkipped ==
    (Ended /\ call.zoho.status # "raised" /\ BadEvents(call) # {})
    => /\ call.pc = "done"
       /\ \A ev \in Fetched(call) \ BadEvents(call) :
             notification_time(ev.start_time, settings.reminder_time) > now
             => HasJob(jobs, TopId(ev.id))

\* C18: the unified fetch never raises to the sync pass and returns exactly
\* the events of the providers that succeeded.
C18_PartialFetchUsed ==
    (call.pc # "fetch" /\ BadEvents(call) = {})
    => /\ call.pc # "raised"
       /\ call.events = Fetched(call)

\* C19: the periodic sync job stays registered: once init_scheduler has
\* added it, every sync pass, initial, periodic or on demand, leaves the
\* calendar_sync job in the scheduler.
C19_SyncJobStays ==
    svc.pc \in {"syncing", "ready"} => HasJob(svc.jobs, CalendarSyncId)

\* C20: once the pass that open_settings runs after the dialog was accepted
\* has returned, every pending reminder job runs at start_time minus the
\* reminder_minutes now configured: no job of the previous configuration is
\* left.
C20_RebuiltAfterSettings ==
    sync["ui"] = Idle
    => \A j \in TopJobs :
          j.origin = "sync"
          => j.run_at = notification_time(j.start, settings.reminder_time)

\* C21: when a sync pass has completed, every returned event whose
\* notify_at = start_time - reminder_minutes is after the current time has
\* exactly one pending job event_notification_<id>, at notify_at and for that
\* event, and there is no other top-level job.
C21_PassSchedulesEveryFutureEvent ==
    call.pc = "done"
    => LET notify_at(ev) == ev.start_time - settings.reminder_time * TicksPerMinute
           future == {ev \in call.events : instant(notify_at(ev)) > now}
       IN  /\ \A ev \in future :
                 \E j \in jobs :
                    /\ j.id = TopId(ev.id)
                    /\ j.run_at = notify_at(ev)
                    /\ j.start = ev.start_time
                    /\ \A k \in jobs : k.id = j.id => k = j
           /\ \A j \in TopJobs : \E ev \in future : j.id = TopId(ev.id)

\* C22: get_unified_events returns every event of every connected provider
\* exactly once, nothing of a provider that is not connected, and the events
\* that have a start time in non-decreasing order of it.
C22_MergedAndSorted ==
    call.pc # "merge"
    => LET r == call.result
       IN  /\ call.pc = "returned"
           /\ Len(r) = Len(all_events(call))
           /\ Range(r) = Range(all_events(call))
           /\ \A i, j \in 1 .. Len(r) :
                 (/\ i < j
                  /\ isoparse(r[i].start_time) = "ok"
                  /\ isoparse(r[j].start_time) = "ok")
                 => instant(r[i].start_time) <= instant(r[j].start_time)

\* C23: Scheduler.start is idempotent: a call while the scheduler is running
\* leaves the running state, the atexit registration and the pending jobs as
\* they were, and start(); start() gives what one start() gives.
C23_StartIdempotent ==
    [][/\ start(start(call.scheduler)) = start(call.scheduler)
       /\ (call'.starts = call.starts + 1 /\ call.scheduler.running)
          => /\ call'.scheduler = call.scheduler
             /\ jobs' = jobs]_vars

\* start was called on a running scheduler that holds jobs
C23_Witness ==
    /\ call.last = "start_again"
    /\ call.scheduler = [running |-> TRUE, atexit |-> 1]
    /\ jobs # {}

\* C24: no escalation step's speak request is rejected because an earlier
\* step of the same session is still speaking, when that utterance has lasted
\* less than 3.0 s (the delay between two steps): each of the three
\* utterances is started.
C24_EveryStepSpoken ==
    [][\A task \in running \ running' :
          task.kind = "notification_step"
          => ~\E th \in tts.threads :
                 /\ tts.is_speaking
                 /\ ~th.stopped
                 /\ th.utt.kind = "step"
                 /\ th.utt.s = task.s
                 /\ now - th.started < SequenceDelay[2]]_vars

\* C25: the timeout handler of a session closes the popup of that session
\* only: it never closes a visible popup of another session, and after it
\* the session's own popup is not visible.
C25_TimeoutClosesOwnPopup ==
    [][\A task \in running \ running' :
          task.kind = "notification_timeout"
          => /\ (popup.visible /\ ~popup'.visible) => popup.s = task.s
             /\ popup'.s = task.s => ~popup'.visible]_vars

\* C26: the speaking flag is set whenever a speech worker thread is alive:
\* stop does not return before the stopped worker has ended, and a worker
\* that ends does not clear the flag of a later utterance.
C26_FlagWhileWorkerAlive ==
    tts.threads # {} => tts.is_speaking

\* C27: a session starts all or nothing: the step of
\* trigger_notification_flow that shows the popup of a new session leaves
\* its three step jobs and its timeout job registered.
C27_SessionStartAllOrNothing ==
    [][\A s \in SessionIds :
          (~sessions[s].live /\ sessions'[s].live /\ popup' = [s |-> s, visible |-> TRUE])
          => LET e == sessions'[s].event
             IN  /\ \A i \in StepIndexes :
                       \E j \in jobs' : j.id = StepId(e, i) /\ j.s = s
                 /\ \E j \in jobs' : j.id = TimeoutId(e) /\ j.s = s]_vars

\* C28: the purge of a sync pass removes event_notification_ jobs only: the
\* recurring_sync job and every pending notification_step_ and
\* notification_timeout_ job are the same before and after the pass.
C28_PurgeKeepsOtherJobs ==
    [][\A th \in Threads :
          (sync[th].pc = "schedule" /\ sync'[th] = Idle)
          => {j \in jobs' : ~startswith_event_notification(j.id)}
             = {j \in jobs : ~startswith_event_notification(j.id)}]_vars

\* a pass has completed while step and timeout jobs of a session were pending
C28_Witness ==
    /\ \A th \in Threads : sync[th] = Idle
    /\ \E j \in jobs : j.id = SyncId /\ j.run_at = now + SyncIntervalMinutes * TicksPerMinute
    /\ StepJobs # {}
    /\ TimeoutJobs # {}
    /\ TopJobs # {}

\* C29: when a sync pass completes and no other pass is running, the
\* event_notification_ jobs are those of the later fetch (the events shown
\* last): one job per fetched event whose notify time is ahead, none for an
\* event that fetch did not return, and no id has two jobs.
C29_ConcurrentPassesAgree ==
    [][\A th \in Threads :
          (sync[th].pc = "schedule" /\ \A other \in Threads : sync'[other] = Idle)
          => /\ \A ev \in displayed :
                   notification_time(ev.start_time, settings.reminder_time) > now
                   => \E j \in jobs' :
                         /\ j.id = TopId(ev.id)
                         /\ j.start = ev.start_time
                         /\ \A k \in jobs' : k.id = j.id => k = j
             /\ \A j \in jobs' :
                   startswith_event_notification(j.id)
                   => \E ev \in displayed : j.id = TopId(ev.id)]_vars

====
